---------------------------- MODULE Spec2Model ----------------------------
(* A model of flake8-nitpick: the structural diff engine (flatten,        *)
(* unflatten and the key/value checker), the directory-tree climber, the  *)
(* resolution cache, the style resolver, the checkers and the run of the  *)
(* plugin on one file, and the text-line plugin.                          *)
(*                                                                        *)
(* Strings the code splits or joins are sequences of tokens: a token is   *)
(* the separator itself or a separator-free, non-empty piece of text, so  *)
(* the empty string is <<>> and "a.b" is <<"a", ".", "b">>.  Paths are    *)
(* sequences of components from the filesystem root, which is <<>>.       *)
EXTENDS Integers, Sequences, FiniteSets, TLC

VARIABLES
    pc,              \* position of the pure-function specifications
    dict_,           \* flatten's argument (a nested dict)
    flattened,       \* flatten(dict_)
    unflattened,     \* unflatten(flattened)
    pyproject_toml,  \* PyProjectTomlChecker: config.pyproject_toml
    file_toml,       \* PyProjectTomlChecker: the style's fragment for the file
    rules_errors,    \* what PyProjectTomlChecker.check_rules yielded
    disk,            \* climb_directory_tree: the files of each directory
    starting_path,   \* climb_directory_tree: where the climb starts
    file_patterns,   \* climb_directory_tree: the patterns, in order
    found_files,     \* what climb_directory_tree returned
    files,           \* check_exists: the style's `files` table
    present,         \* check_exists: the file names present in root_dir
    exists_errors,   \* what each checker's check_exists yielded
    contains,        \* TextPlugin: the expected lines of the style
    file_text,       \* TextPlugin: the text of the file
    text_errors,     \* what TextPlugin.check_rules yielded
    env,             \* the run: filesystem, manifest and network
    cache,           \* the run: the cache file's toml_dict
    lastRun          \* the run: what the last NitpickChecker.run did

vars == <<pc, dict_, flattened, unflattened, pyproject_toml, file_toml,
          rules_errors, disk, starting_path, file_patterns, found_files,
          files, present, exists_errors, contains, file_text, text_errors,
          env, cache, lastRun>>

treeVars == <<dict_, flattened, unflattened>>
rulesVars == <<pyproject_toml, file_toml, rules_errors>>
climbVars == <<disk, starting_path, file_patterns, found_files>>
existsVars == <<files, present, exists_errors>>
textVars == <<contains, file_text, text_errors>>
runVars == <<env, cache, lastRun>>

notTree == <<rulesVars, climbVars, existsVars, textVars, runVars>>
notRules == <<treeVars, climbVars, existsVars, textVars, runVars>>
notClimb == <<treeVars, rulesVars, existsVars, textVars, runVars>>
notExists == <<treeVars, rulesVars, climbVars, textVars, runVars>>
notText == <<treeVars, rulesVars, climbVars, existsVars, runVars>>
notRun == <<pc, treeVars, rulesVars, climbVars, existsVars, textVars>>

-----------------------------------------------------------------------------
(* Sequences.                                                              *)

Range(s) == {s[i] : i \in 1..Len(s)}

SeqsUpTo(S, n) == UNION {[1..k -> S] : k \in 0..n}

RECURSIVE Concat(_)
Concat(ss) == IF ss = <<>> THEN <<>> ELSE Head(ss) \o Concat(Tail(ss))

IsPrefix(p, s) == Len(p) <= Len(s) /\ SubSeq(s, 1, Len(p)) = p

\* F(value), with value worked out once: a local variable of the code.
Bind(value, F(_)) == CHOOSE out \in {F(x) : x \in {value}} : TRUE

-----------------------------------------------------------------------------
(* Nested dicts.  A dict is a sequence of entries in insertion order, with *)
(* distinct keys; a node is a leaf (a scalar or a list) or a mapping.      *)

separator == "."

Leaf(v) == [kind |-> "leaf", val |-> v, items |-> <<>>]

Mapping(d) == [kind |-> "map", val |-> "", items |-> d]

Entry(k, n) == [key |-> k, node |-> n]

Keys(d) == {d[i].key : i \in 1..Len(d)}

Get(d, k) == (CHOOSE i \in 1..Len(d) : d[i].key = k)

\* d[k] = n: an existing key keeps its place, a new one goes last.
DictSet(d, k, n) ==
    IF k \in Keys(d)
        THEN [i \in 1..Len(d) |-> IF d[i].key = k THEN Entry(k, n) ELSE d[i]]
        ELSE Append(d, Entry(k, n))

\* dict(items)
RECURSIVE DictOf(_)
DictOf(items) ==
    IF items = <<>> THEN <<>>
    ELSE LET n == Len(items)
         IN  DictSet(DictOf(SubSeq(items, 1, n - 1)), items[n].key, items[n].node)

\* Python's == on dicts: the same keys with equal values, whatever the order.
RECURSIVE DictEq(_, _)
DictEq(a, b) ==
    /\ Keys(a) = Keys(b)
    /\ \A k \in Keys(a) :
          LET x == a[Get(a, k)].node
              y == b[Get(b, k)].node
          IN  /\ x.kind = y.kind
              /\ IF x.kind = "map" THEN DictEq(x.items, y.items) ELSE x.val = y.val

RECURSIVE flatten(_, _)
flatten(d, parent_key) ==
    LET new_key(key) ==
            IF parent_key # <<>> THEN parent_key \o <<separator>> \o key ELSE key
        itemsOf(e) ==
            IF e.node.kind = "map"
                THEN flatten(e.node.items, new_key(e.key))
                ELSE <<Entry(new_key(e.key), e.node)>>
    IN  DictOf(Concat([i \in 1..Len(d) |-> itemsOf(d[i])]))

\* k.split(sep): the pieces between the separators, empty ones kept.
RECURSIVE split(_, _)
split(k, sep) ==
    IF \A i \in 1..Len(k) : k[i] # sep THEN <<k>>
    ELSE LET i == CHOOSE j \in 1..Len(k) :
                      k[j] = sep /\ \A h \in 1..(j - 1) : k[h] # sep
         IN  <<SubSeq(k, 1, i - 1)>> \o split(SubSeq(k, i + 1, Len(k)), sep)

TypeError == [kind |-> "TypeError", val |-> "", items |-> <<>>]

\* The walk of one flattened key into `node`, then the assignment of the leaf;
\* indexing or assigning into a leaf raises TypeError.
RECURSIVE insert(_, _, _)
insert(node, keys, v) ==
    IF node.kind # "map" THEN TypeError
    ELSE IF Len(keys) = 1 THEN Mapping(DictSet(node.items, keys[1], v))
    ELSE LET ki == keys[1]
             sub == IF ki \in Keys(node.items)
                        THEN node.items[Get(node.items, ki)].node
                        ELSE Mapping(<<>>)
             new == insert(sub, Tail(keys), v)
         IN  IF new.kind = "TypeError" THEN TypeError
             ELSE Mapping(DictSet(node.items, ki, new))

RECURSIVE unflattenFrom(_, _)
unflattenFrom(node, items) ==
    IF items = <<>> \/ node.kind = "TypeError" THEN node
    ELSE unflattenFrom(insert(node, split(items[1].key, separator), items[1].node), Tail(items))

\* The nested dict as a node, or TypeError.
unflatten(flat) == unflattenFrom(Mapping(<<>>), flat)

-----------------------------------------------------------------------------
(* The round trip of flatten and unflatten.                                *)

MaxDepth == 2
MaxWidth == 2

TreeKeys == {<<>>, <<"a">>, <<"b">>, <<"a", ".", "b">>}
LeafVals == {"1", "[1, 2]"}

RECURSIVE Nodes(_, _)
DictsOver(K, depth) ==
    {d \in SeqsUpTo([key : K, node : Nodes(K, depth - 1)], MaxWidth) :
        \A i, j \in 1..Len(d) : i # j => d[i].key # d[j].key}

Nodes(K, depth) ==
    {Leaf(v) : v \in LeafVals}
        \cup (IF depth = 0 THEN {} ELSE {Mapping(d) : d \in DictsOver(K, depth)})

NoValue == [set |-> FALSE, node |-> Mapping(<<>>)]
Value(n) == [set |-> TRUE, node |-> n]

\* The variables of the other specifications, at rest.
IdleTree == dict_ = <<>> /\ flattened = NoValue /\ unflattened = NoValue
IdleRules == pyproject_toml = <<>> /\ file_toml = <<>> /\ rules_errors = <<>>
IdleClimb ==
    disk = {} /\ starting_path = <<>> /\ file_patterns = <<>> /\ found_files = {}
IdleExists == files = <<>> /\ present = {} /\ exists_errors = <<>>
IdleText == contains = <<>> /\ file_text = <<>> /\ text_errors = <<>>
IdleRun == env = <<>> /\ cache = <<>> /\ lastRun = <<>>

Flatten ==
    /\ pc = "start"
    /\ flattened' = Value(Mapping(flatten(dict_, <<>>)))
    /\ pc' = "flattened"
    /\ UNCHANGED <<dict_, unflattened, notTree>>

Unflatten ==
    /\ pc = "flattened"
    /\ unflattened' = Value(unflatten(flattened.node.items))
    /\ pc' = "done"
    /\ UNCHANGED <<dict_, flattened, notTree>>

InitRoundTrip ==
    /\ pc = "start"
    /\ dict_ \in DictsOver(TreeKeys, MaxDepth)
    /\ flattened = NoValue
    /\ unflattened = NoValue
    /\ IdleRules /\ IdleClimb /\ IdleExists /\ IdleText /\ IdleRun

NextRoundTrip == Flatten \/ Unflatten

SpecRoundTrip == InitRoundTrip /\ [][NextRoundTrip]_vars

\* No key of the tree, at any depth, contains the separator.
RECURSIVE NoDottedKeys(_)
NoDottedKeys(d) ==
    \A i \in 1..Len(d) :
        /\ separator \notin Range(d[i].key)
        /\ d[i].node.kind = "map" => NoDottedKeys(d[i].node.items)

\* C1: for every nested tree without dotted keys (empty nested mappings
\* included), unflatten(flatten(T)) is a dict equal to T.
C1_RoundTrip ==
    (pc = "done" /\ NoDottedKeys(dict_)) =>
        /\ unflattened.node.kind = "map"
        /\ DictEq(unflattened.node.items, dict_)

-----------------------------------------------------------------------------
(* The key/value checker of pyproject.toml.                                *)

ERROR_PREFIX == "NIP"

\* A diagnostic: (1, 0, f"{ERROR_PREFIX}{error_number} {error_message}", NitpickChecker).
\* The message keeps its parts apart: the text, the file or style it names
\* and, for NIP104, missing_dict.
nitpick_error(error_number, error_message, subject, missing_dict) ==
    [line |-> 1, col |-> 0, prefix |-> ERROR_PREFIX, code |-> error_number,
     message |-> error_message, subject |-> subject, missing |-> missing_dict,
     checker |-> "NitpickChecker"]

NoDict == Mapping(<<>>)

\* {(k, v) of a} <= {(k, v) of b}, on flattened dicts.
ItemsSubset(a, b) ==
    \A i \in 1..Len(a) :
        a[i].key \in Keys(b) /\ b[Get(b, a[i].key)].node = a[i].node

\* PyProjectTomlChecker.check_rules: the diagnostics, or TypeError out of unflatten.
PyProjectCheckRules(file_name, project_toml, style_toml) ==
    LET project == flatten(project_toml, <<>>)
        style == flatten(style_toml, <<>>)
        NotInProject(e) == e.key \notin Keys(project)
        missing_dict == unflatten(SelectSeq(style, NotInProject))
    IN  IF ItemsSubset(style, project) THEN [fault |-> "none", errors |-> <<>>]
        ELSE IF missing_dict.kind = "TypeError"
            THEN [fault |-> "TypeError", errors |-> <<>>]
        ELSE [fault |-> "none",
              errors |-> <<nitpick_error(104, "Missing values in", file_name,
                                         missing_dict)>>]

RulesKeys == {<<"a">>, <<"b">>}

CheckRules ==
    /\ pc = "start"
    /\ LET r == PyProjectCheckRules(<<"pyproject", ".", "toml">>, pyproject_toml, file_toml)
       IN  /\ rules_errors' = r.errors
           /\ pc' = IF r.fault = "none" THEN "done" ELSE r.fault
    /\ UNCHANGED <<pyproject_toml, file_toml, notRules>>

InitRules ==
    /\ pc = "start"
    /\ file_toml \in DictsOver(RulesKeys, MaxDepth)
    /\ pyproject_toml \in DictsOver(RulesKeys, MaxDepth)
    /\ rules_errors = <<>>
    /\ IdleTree /\ IdleClimb /\ IdleExists /\ IdleText /\ IdleRun

SpecRules == InitRules /\ [][CheckRules]_vars

\* The flattened leaves (k, v) of expected that are no flattened leaf of actual.
LeavesNotIn(expected, actual) ==
    LET e == flatten(expected, <<>>)
        a == flatten(actual, <<>>)
        Absent(x) == ~(x.key \in Keys(a) /\ a[Get(a, x.key)].node = x.node)
    IN  SelectSeq(e, Absent)

\* C2: the missing tree of check_rules is the nested reconstruction of exactly
\* the flattened leaves (k, v) of expected that are no leaf of actual: absent
\* keys and keys whose value differs, each with expected's value.
C2_MissingTree ==
    pc = "done" =>
        LET leaves == LeavesNotIn(file_toml, pyproject_toml)
        IN  IF leaves = <<>> THEN rules_errors = <<>>
            ELSE /\ Len(rules_errors) = 1
                 /\ DictEq(rules_errors[1].missing.items, unflatten(leaves).items)

-----------------------------------------------------------------------------
(* Paths and the directory-tree climber.  A path is the sequence of its    *)
(* names from the root; a name is a token sequence ("setup.py" is          *)
(* <<"setup", ".", "py">>).  The disk is the set of the paths of its files. *)

PYPROJECT_TOML == <<"pyproject", ".", "toml">>
NITPICK_STYLE_TOML == <<"nitpick-style", ".", "toml">>
SETUP_PY == <<"setup", ".", "py">>
ROOT_PYTHON_FILES == <<SETUP_PY, <<"manage", ".", "py">>, <<"autoapp", ".", "py">>>>
ROOT_FILES ==
    <<PYPROJECT_TOML, <<"setup", ".", "cfg">>, <<"requirements", "*", ".", "txt">>,
      <<"Pipfile">>>> \o ROOT_PYTHON_FILES

\* Path.parent: the root is its own parent.
Parent(path) == IF path = <<>> THEN <<>> ELSE SubSeq(path, 1, Len(path) - 1)

\* Path.is_file and Path.exists (every path of the model is a file or a
\* directory holding one).
IsFile(d, path) == path \in d
Exists(d, path) == \E f \in d : IsPrefix(path, f)

\* The names in a directory: its files and its subdirectories.
Listing(d, dir) == {f[Len(dir) + 1] : f \in {g \in d : IsPrefix(dir, g) /\ Len(g) > Len(dir)}}

\* A name against a pattern: "*" stands for any run of tokens.
RECURSIVE fnmatch(_, _)
fnmatch(name, pattern) ==
    IF pattern = <<>> THEN name = <<>>
    ELSE IF Head(pattern) = "*"
        THEN \E k \in 0..Len(name) :
                 fnmatch(SubSeq(name, k + 1, Len(name)), Tail(pattern))
    ELSE name # <<>> /\ Head(name) = Head(pattern) /\ fnmatch(Tail(name), Tail(pattern))

\* Path.glob of a pattern without directory parts.
Glob(d, dir, pattern) == {dir \o <<n>> : n \in {m \in Listing(d, dir) : fnmatch(m, pattern)}}

NoPaths == [none |-> TRUE, paths |-> {}]

\* The first pattern, in order, that matches in current_dir.
RECURSIVE firstMatch(_, _, _)
firstMatch(d, current_dir, patterns) ==
    IF patterns = <<>> THEN {}
    ELSE IF Glob(d, current_dir, Head(patterns)) # {}
        THEN Glob(d, current_dir, Head(patterns))
    ELSE firstMatch(d, current_dir, Tail(patterns))

\* The loop of lines 52-58: it ends, without a look, at the root.
RECURSIVE climbFrom(_, _, _)
climbFrom(d, current_dir, patterns) ==
    IF current_dir = <<>> THEN NoPaths
    ELSE IF firstMatch(d, current_dir, patterns) # {}
        THEN [none |-> FALSE, paths |-> firstMatch(d, current_dir, patterns)]
    ELSE climbFrom(d, Parent(current_dir), patterns)

\* starting_path is resolved already; found_files is the set of the list.
climb_directory_tree(d, start, patterns) ==
    climbFrom(d, IF IsFile(d, start) THEN Parent(start) ELSE start, patterns)

ClimbDirs == {<<>>, <<<<"a">>>>, <<<<"a">>, <<"b">>>>}
ClimbNames ==
    {SETUP_PY, <<"requirements", ".", "txt">>, <<"requirements", "-dev", ".", "txt">>}
ModPy == <<<<"a">>, <<"b">>, <<"mod", ".", "py">>>>
ClimbStarts == ClimbDirs \cup {ModPy, <<<<"a">>, <<"b">>, <<"gone", ".", "py">>>>}
ClimbPatterns ==
    {<<SETUP_PY>>, <<<<"requirements", "*", ".", "txt">>, SETUP_PY>>,
     <<SETUP_PY, <<"requirements", "*", ".", "txt">>>>}

Climb ==
    /\ pc = "start"
    /\ found_files' = climb_directory_tree(disk, starting_path, file_patterns)
    /\ pc' = "done"
    /\ UNCHANGED <<disk, starting_path, file_patterns, notClimb>>

InitClimb ==
    /\ pc = "start"
    /\ \E fs \in SUBSET {dir \o <<n>> : dir \in ClimbDirs, n \in ClimbNames} :
           disk = fs \cup {ModPy}
    /\ starting_path \in ClimbStarts
    /\ file_patterns \in ClimbPatterns
    /\ found_files = NoPaths
    /\ IdleTree /\ IdleRules /\ IdleExists /\ IdleText /\ IdleRun

SpecClimb == InitClimb /\ [][Climb]_vars

\* The directories from start's directory up to and including the root.
StartDir == IF IsFile(disk, starting_path) THEN Parent(starting_path) ELSE starting_path
UpToRoot == {SubSeq(StartDir, 1, k) : k \in 0..Len(StartDir)}
HasMatch(dir) == \E i \in 1..Len(file_patterns) : Glob(disk, dir, file_patterns[i]) # {}

\* C3: the climb returns none exactly when no directory from start's directory
\* up to and including the root holds a match, and otherwise matches of the
\* nearest such directory.
C3_Climb ==
    pc = "done" =>
        /\ found_files.none <=> ~ \E dir \in UpToRoot : HasMatch(dir)
        /\ ~ found_files.none =>
              LET nearest == CHOOSE dir \in UpToRoot :
                                 /\ HasMatch(dir)
                                 /\ \A e \in UpToRoot : HasMatch(e) => Len(e) <= Len(dir)
              IN  /\ found_files.paths # {}
                  /\ \A f \in found_files.paths :
                        /\ Parent(f) = nearest
                        /\ \E i \in 1..Len(file_patterns) :
                              f \in Glob(disk, nearest, file_patterns[i])

\* The same, with the root itself left out of the directories looked at.
ClimbBelowRoot ==
    pc = "done" =>
        /\ found_files.none <=> ~ \E dir \in UpToRoot \ {<<>>} : HasMatch(dir)
        /\ ~ found_files.none =>
              LET nearest == CHOOSE dir \in UpToRoot \ {<<>>} :
                                 /\ HasMatch(dir)
                                 /\ \A e \in UpToRoot \ {<<>>} :
                                       HasMatch(e) => Len(e) <= Len(dir)
              IN  /\ found_files.paths # {}
                  /\ \A f \in found_files.paths : Parent(f) = nearest

-----------------------------------------------------------------------------
(* The checkers and check_exists.                                          *)

\* cls.__subclasses__(), in the order the classes are defined.
Subclasses(cls) ==
    IF cls = "BaseChecker"
        THEN <<"PyProjectTomlChecker", "SetupCfgChecker", "PipfileChecker",
               "PipfileLockChecker">>
        ELSE <<>>

RECURSIVE get_subclasses(_)
get_subclasses(cls) ==
    LET own == Subclasses(cls)
    IN  Concat([i \in 1..Len(own) |-> <<own[i]>> \o get_subclasses(own[i])])

file_name(cls) ==
    CASE cls = "PyProjectTomlChecker" -> PYPROJECT_TOML
      [] cls = "SetupCfgChecker" -> <<"setup", ".", "cfg">>
      [] cls = "PipfileChecker" -> <<"Pipfile">>
      [] cls = "PipfileLockChecker" -> <<"Pipfile", ".", "lock">>

should_exist_default(cls) == cls \in {"PyProjectTomlChecker", "SetupCfgChecker"}

\* A TOML boolean, as the leaf of a dict.
Bool(b) == Leaf(IF b THEN <<"true">> ELSE <<"false">>)
Truthy(node) == node # Bool(FALSE)

\* dict.get(key, default)
DictGet(d, k, default) == IF k \in Keys(d) THEN d[Get(d, k)].node ELSE default

\* check_exists without the style's `files` table: the class's default decides.
check_exists_by_default(cls, files_, d, root_dir) ==
    LET should_exist == should_exist_default(cls)
        file_exists == Exists(d, root_dir \o <<file_name(cls)>>)
    IN  IF should_exist /\ ~ file_exists
            THEN <<nitpick_error(102, "Missing file", file_name(cls), NoDict)>>
        ELSE IF ~ should_exist /\ file_exists
            THEN <<nitpick_error(103, "File should be deleted", file_name(cls), NoDict)>>
        ELSE <<>>

\* BaseChecker.check_exists: `files_` is config.files, `d` the disk.
check_exists(cls, files_, d, root_dir) ==
    LET should_exist == Truthy(DictGet(files_, file_name(cls), Bool(should_exist_default(cls))))
        file_exists == Exists(d, root_dir \o <<file_name(cls)>>)
    IN  IF should_exist /\ ~ file_exists
            THEN <<nitpick_error(102, "Missing file", file_name(cls), NoDict)>>
        ELSE IF ~ should_exist /\ file_exists
            THEN <<nitpick_error(103, "File should be deleted", file_name(cls), NoDict)>>
        ELSE <<>>

CheckerClasses == Range(get_subclasses("BaseChecker"))
ProjDir == <<<<"p">>, <<"proj">>>>

\* Every `files` table over the checkers' file names, in one order of the keys.
RECURSIVE FilesTables(_)
FilesTables(names) ==
    IF names = <<>> THEN {<<>>}
    ELSE LET rest == FilesTables(Tail(names))
         IN  rest \cup {<<Entry(Head(names), Bool(b))>> \o t : b \in BOOLEAN, t \in rest}

NotRun == [set |-> FALSE, errors |-> <<>>]

CheckExists(cls) ==
    /\ pc = "start"
    /\ ~ exists_errors[cls].set
    /\ exists_errors' =
           [exists_errors EXCEPT
               ![cls] = [set |-> TRUE, errors |-> check_exists(cls, files, present, ProjDir)]]
    /\ UNCHANGED <<pc, files, present, notExists>>

InitExists ==
    /\ pc = "start"
    /\ files \in FilesTables([i \in 1..4 |-> file_name(get_subclasses("BaseChecker")[i])])
    /\ present \in SUBSET {ProjDir \o <<file_name(c)>> : c \in CheckerClasses}
    /\ exists_errors = [c \in CheckerClasses |-> NotRun]
    /\ IdleTree /\ IdleRules /\ IdleClimb /\ IdleText /\ IdleRun

NextExists == \E cls \in CheckerClasses : CheckExists(cls)

SpecExists == InitExists /\ [][NextExists]_vars

\* The style's override for the checker's file if given, its default otherwise.
ShouldExist(cls) ==
    IF file_name(cls) \in Keys(files)
        THEN files[Get(files, file_name(cls))].node.val = <<"true">>
        ELSE cls \in {"PyProjectTomlChecker", "SetupCfgChecker"}
OnDisk(cls) == (ProjDir \o <<file_name(cls)>>) \in present

\* C7: check_exists yields exactly one "missing file" diagnostic when the file
\* should exist and is absent, exactly one "should be deleted" diagnostic when
\* it should not exist and is present, and nothing otherwise.
C7_CheckExists ==
    \A cls \in DOMAIN exists_errors :
        exists_errors[cls].set =>
            LET errors == exists_errors[cls].errors
            IN  /\ (ShouldExist(cls) /\ ~ OnDisk(cls)) =>
                      /\ Len(errors) = 1
                      /\ errors[1].code = 102
                      /\ errors[1].message = "Missing file"
                      /\ errors[1].subject = file_name(cls)
                /\ (~ ShouldExist(cls) /\ OnDisk(cls)) =>
                      /\ Len(errors) = 1
                      /\ errors[1].code = 103
                      /\ errors[1].message = "File should be deleted"
                      /\ errors[1].subject = file_name(cls)
                /\ (ShouldExist(cls) <=> OnDisk(cls)) => errors = <<>>

\* A checker whose default is overridden has yielded each kind of diagnostic.
C7_Witness ==
    /\ DOMAIN exists_errors = CheckerClasses
    /\ \E c1, c2 \in CheckerClasses :
          /\ file_name(c1) \in Keys(files) /\ file_name(c2) \in Keys(files)
          /\ exists_errors[c1].set /\ exists_errors[c2].set
          /\ ShouldExist(c1) # should_exist_default(c1)
          /\ ShouldExist(c2) # should_exist_default(c2)
          /\ Len(exists_errors[c1].errors) = 1 /\ exists_errors[c1].errors[1].code = 102
          /\ Len(exists_errors[c2].errors) = 1 /\ exists_errors[c2].errors[1].code = 103

-----------------------------------------------------------------------------
(* The text plugin.  A text is a sequence of characters, NL the line break. *)

NL == "\n"
TextChars == {"a", "b"}
error_base_number == 350

\* The code point of a character.
Ord(c) == CASE c = NL -> 10 [] c = "a" -> 97 [] c = "b" -> 98

\* x < y on strings.
RECURSIVE StrLess(_, _)
StrLess(x, y) ==
    IF y = <<>> THEN FALSE
    ELSE IF x = <<>> THEN TRUE
    ELSE IF Head(x) # Head(y) THEN Ord(Head(x)) < Ord(Head(y))
    ELSE StrLess(Tail(x), Tail(y))

\* OrderedSet(items): the first occurrence of each item, in order.
RECURSIVE OrderedSet(_)
OrderedSet(items) ==
    IF items = <<>> THEN <<>>
    ELSE LET n == Len(items)
             front == OrderedSet(SubSeq(items, 1, n - 1))
         IN  IF items[n] \in Range(front) THEN front ELSE Append(front, items[n])

\* sorted(items)
RECURSIVE sorted(_)
sorted(items) ==
    IF items = <<>> THEN <<>>
    ELSE LET rest == sorted(Tail(items))
             x == Head(items)
             NotAfter(y) == ~ StrLess(x, y)
             After(y) == StrLess(x, y)
         IN  SelectSeq(rest, NotAfter) \o <<x>> \o SelectSeq(rest, After)

\* sep.join(items)
RECURSIVE join(_, _)
join(sep, items) ==
    IF items = <<>> THEN <<>>
    ELSE IF Len(items) = 1 THEN items[1]
    ELSE items[1] \o <<sep>> \o join(sep, Tail(items))

\* Line 68: what check_rules hands to self.flake8_error, with the plugin's
\* error_base_number.
flake8_error(number, message, suggestion) ==
    [base |-> error_base_number, number |-> number, message |-> message,
     suggestion |-> suggestion]

\* check_rules without sorted(): the missing lines in the order expected.
text_check_rules_unsorted(expected_lines, text) ==
    LET expected == OrderedSet(expected_lines)
        actual == OrderedSet(split(text, NL))
        NotActual(line) == line \notin Range(actual)
        missing == SelectSeq(expected, NotActual)
    IN  IF missing # <<>>
            THEN <<flake8_error(2, " has missing lines:", join(NL, missing))>>
            ELSE <<>>

\* TextPlugin.check_rules: `expected_lines` is _expected_lines(), `text` is
\* file_path.read_text().
text_check_rules(expected_lines, text) ==
    LET expected == OrderedSet(expected_lines)
        actual == OrderedSet(split(text, NL))
        NotActual(line) == line \notin Range(actual)
        missing == SelectSeq(expected, NotActual)
    IN  IF missing # <<>>
            THEN <<flake8_error(2, " has missing lines:", join(NL, sorted(missing)))>>
            ELSE <<>>

MaxLine == 1
MaxContains == 2
MaxText == 4

TextCheckRules ==
    /\ pc = "start"
    /\ text_errors' = text_check_rules(contains, file_text)
    /\ pc' = "done"
    /\ UNCHANGED <<contains, file_text, notText>>

InitText ==
    /\ pc = "start"
    /\ contains \in SeqsUpTo(SeqsUpTo(TextChars, MaxLine), MaxContains)
    /\ file_text \in SeqsUpTo(TextChars \cup {NL}, MaxText)
    /\ text_errors = <<>>
    /\ IdleTree /\ IdleRules /\ IdleClimb /\ IdleExists /\ IdleRun

SpecText == InitText /\ [][TextCheckRules]_vars

\* The expected lines that are no line of the file.
AbsentLines == {line \in Range(contains) : line \notin Range(split(file_text, NL))}

\* C8: no diagnostic when every expected line is a line of the file, in any
\* order; otherwise exactly one diagnostic, which lists exactly the expected
\* lines absent from the file, each once, in sorted order.
C8_TextLines ==
    pc = "done" =>
        IF AbsentLines = {} THEN text_errors = <<>>
        ELSE /\ Len(text_errors) = 1
             /\ text_errors[1].number = 2
             /\ LET listed == split(text_errors[1].suggestion, NL)
                IN  /\ Range(listed) = AbsentLines
                    /\ \A i, j \in 1..Len(listed) : i < j => StrLess(listed[i], listed[j])

\* Two expected lines, given out of order and one of them twice over, are both
\* absent from a file of several lines.
C8_Witness ==
    /\ pc = "done"
    /\ Len(contains) = 2 /\ StrLess(contains[2], contains[1])
    /\ Cardinality(AbsentLines) = 2
    /\ Len(split(file_text, NL)) >= 2
    /\ Len(text_errors) = 1

\* Both expected lines are in the file, in the reverse order: no diagnostic.
C8_WitnessNone ==
    /\ pc = "done"
    /\ Len(contains) = 2 /\ contains[1] # contains[2]
    /\ split(file_text, NL) = <<contains[2], contains[1]>>
    /\ text_errors = <<>>

-----------------------------------------------------------------------------
(* The cache file.  `c` is its toml_dict: each key unset, or set to a      *)
(* string.  A Path is absolute or relative to the working directory.       *)

NAME == <<"flake8-nitpick">>
CacheKeys == {"style", "root_dir", "main_python_file"}
Unset == [set |-> FALSE, value |-> <<>>]
EmptyCache == [k \in CacheKeys |-> Unset]

Path(abs, parts) == [abs |-> abs, parts |-> parts]
AbsPath(parts) == Path(TRUE, parts)
NonePath == [none |-> TRUE, parts |-> <<>>]
SomePath(parts) == [none |-> FALSE, parts |-> parts]

\* Path(string): the names between the slashes, "." and empty ones dropped.
IsName(piece) == piece # <<>> /\ piece # <<".">>
PathOf(string) ==
    Path(string # <<>> /\ Head(string) = "/", SelectSeq(split(string, "/"), IsName))

\* str(path) of a relative path.
Str(parts) == IF parts = <<>> THEN <<".">> ELSE join("/", parts)

\* Path.resolve(): the absolute path, as its parts.
Resolve(path, cwd) == IF path.abs THEN path.parts ELSE cwd \o path.parts

\* CACHE_DIR, set from the working directory when the package is imported.
CACHE_DIR(cwd) == cwd \o <<<<".", "cache">>, NAME>>
cache_file(cwd) == CACHE_DIR(cwd) \o <<<<"variables", ".", "toml">>>>

\* NitpickCache.load_path
load_path(c, key, cwd) ==
    IF ~ c[key].set THEN NonePath
    ELSE SomePath(Resolve(PathOf(c[key].value), cwd))

\* NitpickCache.dump
dump(c, key, value) == [c EXCEPT ![key] = [set |-> TRUE, value |-> value]]

\* NitpickCache.dump_path: relative_to raises ValueError for a path that is not
\* under the working directory.
dump_path(c, key, path, cwd) ==
    Bind(Resolve(path, cwd), LAMBDA resolved :
        IF IsPrefix(cwd, resolved)
            THEN [raise |-> "none",
                  cache |-> dump(c, key, Str(SubSeq(resolved, Len(cwd) + 1, Len(resolved))))]
            ELSE [raise |-> "ValueError", cache |-> c])

-----------------------------------------------------------------------------
(* The style resolver and the configuration.                               *)

\* str.startswith("http"), on a string whose scheme is one token.
StartsWithHttp(string) == string # <<>> /\ Head(string) \in {"http", "https"}

\* What the network answers to requests.get(url): a response that is ok, one
\* that is not, or no response at all (requests raises ConnectionError).
URL_OK == <<"https", "://", "ok", "/", "style", ".", "toml">>
URL_404 == <<"https", "://", "gone", "/", "style", ".", "toml">>
URL_DOWN == <<"https", "://", "down", "/", "style", ".", "toml">>
requests_get(url) ==
    CASE url = URL_OK -> "ok" [] url = URL_404 -> "not ok" [] OTHER -> "ConnectionError"

NoMessage == [text |-> "", subject |-> <<>>]

StyleCall(raise, message, path, located, c, d, requests, climbs) ==
    [raise |-> raise, message |-> message, style_path |-> path, located |-> located,
     cache |-> c, disk |-> d, requests |-> requests, climbs |-> climbs]

\* Line 112: the style found is stored in the cache.
store_style(d, c, cwd, style_path, requests, climbs) ==
    Bind(dump_path(c, "style", style_path, cwd), LAMBDA dumped :
        StyleCall(dumped.raise, NoMessage, style_path, TRUE, dumped.cache, d,
                  requests, climbs))

NoStylePath == Path(TRUE, <<>>)

\* find_style, lines 91-113: the style is looked for, then stored in the cache.
locate_style(d, c, cwd, root_dir, project_toml) ==
    Bind(DictGet(project_toml, <<"style">>, Leaf(<<>>)).val, LAMBDA style :
        IF StartsWithHttp(style) THEN
            Bind(requests_get(style), LAMBDA response :
                IF response = "ConnectionError"
                    THEN StyleCall("ConnectionError", NoMessage, NoStylePath, FALSE, c, d, 1, 0)
                ELSE IF response # "ok"
                    THEN StyleCall("RuntimeError",
                                   [text |-> "Error fetching style URL", subject |-> style],
                                   NoStylePath, FALSE, c, d, 1, 0)
                ELSE store_style(d \cup {CACHE_DIR(cwd) \o <<<<"style", ".", "toml">>>>},
                                 c, cwd,
                                 AbsPath(CACHE_DIR(cwd) \o <<<<"style", ".", "toml">>>>),
                                 1, 0))
        ELSE IF style # <<>> THEN
            IF ~ Exists(d, Resolve(PathOf(style), cwd))
                THEN StyleCall("RuntimeError",
                               [text |-> "Style file does not exist", subject |-> style],
                               NoStylePath, FALSE, c, d, 0, 0)
            ELSE store_style(d, c, cwd, PathOf(style), 0, 0)
        ELSE
            Bind(climb_directory_tree(d, root_dir, <<NITPICK_STYLE_TOML>>), LAMBDA paths :
                IF paths.none
                    THEN StyleCall("RuntimeError",
                                   [text |-> "Style not configured and not found",
                                    subject |-> NITPICK_STYLE_TOML],
                                   NoStylePath, FALSE, c, d, 0, 1)
                ELSE store_style(d, c, cwd, AbsPath(CHOOSE f \in paths.paths : TRUE), 0, 1)))

\* find_style without lines 86-89: the cache is never asked.
find_style_uncached(d, c, cwd, root_dir, project_toml) ==
    locate_style(d, c, cwd, root_dir, project_toml)

\* NitpickConfig.find_style
find_style(d, c, cwd, root_dir, project_toml) ==
    Bind(load_path(c, "style", cwd), LAMBDA style_path :
        IF ~ style_path.none
            THEN StyleCall("none", NoMessage, AbsPath(style_path.parts), FALSE, c, d, 0, 0)
            ELSE locate_style(d, c, cwd, root_dir, project_toml))

\* toml.load(path): FileNotFoundError for no file, TomlDecodeError for a text
\* that is no TOML, the dict otherwise.  `text` is the file's text.
toml_load(d, path, text) ==
    IF ~ IsFile(d, path) THEN [raise |-> "FileNotFoundError", toml |-> <<>>]
    ELSE IF ~ text.valid THEN [raise |-> "TomlDecodeError", toml |-> <<>>]
    ELSE [raise |-> "none", toml |-> text.toml]

NoStyleCall ==
    [called |-> FALSE, cached |-> FALSE] @@
        StyleCall("none", NoMessage, NoStylePath, FALSE, EmptyCache, {}, 0, 0)

NoConfig == [root_dir |-> <<>>, pyproject_toml |-> <<>>, style_toml |-> <<>>, files |-> <<>>]

ConfigRaised(raise, message, c, d, style) ==
    [raise |-> raise, message |-> message, config |-> NoConfig, cache |-> c, disk |-> d,
     style |-> style]

\* NitpickConfig.__init__: the configuration, or what it raises.  `e` is the
\* environment: the working directory and the texts of the manifest and style.
NitpickConfig(e, d, c, root_dir) ==
    Bind(toml_load(d, root_dir \o <<PYPROJECT_TOML>>, e.manifest), LAMBDA manifest :
        IF manifest.raise # "none"
            THEN ConfigRaised(manifest.raise, NoMessage, c, d, NoStyleCall)
        ELSE
    Bind(find_style(d, c, e.cwd, root_dir, manifest.toml), LAMBDA found :
    Bind([called |-> TRUE, cached |-> c["style"].set] @@ found, LAMBDA call :
        IF found.raise # "none"
            THEN ConfigRaised(found.raise, found.message, found.cache, found.disk, call)
        ELSE
    Bind(toml_load(found.disk, Resolve(found.style_path, e.cwd), e.style), LAMBDA style :
        IF style.raise # "none"
            THEN ConfigRaised(style.raise, NoMessage, found.cache, found.disk, call)
        ELSE [raise |-> "none", message |-> NoMessage,
              config |-> [root_dir |-> root_dir, pyproject_toml |-> manifest.toml,
                          style_toml |-> style.toml,
                          files |-> DictGet(style.toml, <<"files">>, Mapping(<<>>)).items],
              cache |-> found.cache, disk |-> found.disk, style |-> call]))))

-----------------------------------------------------------------------------
(* NitpickChecker.run.                                                     *)

\* NitpickChecker.find_root_dir
find_root_dir(d, c, cwd, python_file) ==
    Bind(load_path(c, "root_dir", cwd), LAMBDA cached :
        IF ~ cached.none
            THEN [raise |-> "none", none |-> FALSE, root_dir |-> cached.parts, cache |-> c]
        ELSE
    Bind(climb_directory_tree(d, python_file, ROOT_FILES), LAMBDA found_files_ :
        IF found_files_.none
            THEN [raise |-> "none", none |-> TRUE, root_dir |-> <<>>, cache |-> c]
        ELSE
    Bind(Parent(CHOOSE f \in found_files_.paths : TRUE), LAMBDA root_dir :
    Bind(dump_path(c, "root_dir", AbsPath(root_dir), cwd), LAMBDA dumped :
        [raise |-> dumped.raise, none |-> FALSE, root_dir |-> root_dir,
         cache |-> dumped.cache]))))

\* Lines 179-186: the first root file that exists, else the first Python file
\* of root_dir, else the current file.  `first_py` is the name that
\* root_dir.glob("*.py") yields first, when it yields that name at all.
first_python_file(d, root_dir, current_file, first_py) ==
    LET IsThere(root_file) == Exists(d, root_dir \o <<root_file>>)
    IN  Bind(SelectSeq(ROOT_PYTHON_FILES, IsThere), LAMBDA named :
            IF named # <<>> THEN root_dir \o <<Head(named)>>
            ELSE Bind(Glob(d, root_dir, <<"*", ".", "py">>), LAMBDA globbed :
                     IF (root_dir \o <<first_py>>) \in globbed THEN root_dir \o <<first_py>>
                     ELSE IF globbed # {} THEN CHOOSE f \in globbed : TRUE
                     ELSE current_file))

\* NitpickChecker.find_main_python_file.  A Path is never false, so the run
\* never takes the branch of lines 137-139.
find_main_python_file(d, c, cwd, root_dir, current_file, first_py) ==
    Bind(load_path(c, "main_python_file", cwd), LAMBDA cached :
        IF ~ cached.none THEN [raise |-> "none", path |-> cached.parts, cache |-> c]
        ELSE
    Bind(first_python_file(d, root_dir, current_file, first_py), LAMBDA found :
    Bind(dump_path(c, "main_python_file", AbsPath(found), cwd), LAMBDA dumped :
        [raise |-> dumped.raise, path |-> found, cache |-> dumped.cache])))

\* Line 140 without its comparison: every file is taken for the main one.
any_python_file(current_python_file, main_python_file) == TRUE

\* Line 140: the file under inspection is the main Python file.
is_main_python_file(current_python_file, main_python_file) ==
    current_python_file = main_python_file

\* What a checker's method does, one event after the other: it is entered,
\* then it yields its diagnostics.
Entered(cls, method) == [checker |-> cls, method |-> method, yields |-> FALSE,
                         error |-> nitpick_error(0, "", <<>>, NoDict)]
Yielded(cls, method, error) == [checker |-> cls, method |-> method, yields |-> TRUE,
                                error |-> error]

\* A chain that drains its second iterable first.
chain_reversed(first, second) == second \o first

\* itertools.chain(first, second): first is drained, then second.
chain(first, second) == first \o second

\* checker.check_rules(): the base class's, or PyProjectTomlChecker's.
check_rules(cls, config) ==
    IF cls = "PyProjectTomlChecker"
        THEN PyProjectCheckRules(
                 file_name(cls), config.pyproject_toml,
                 DictGet(config.style_toml, file_name(cls), Mapping(<<>>)).items)
        ELSE [fault |-> "none", errors |-> <<>>]

\* The events of one method: entered, then its diagnostics yielded.
Events(cls, method, errors) ==
    <<Entered(cls, method)>> \o [i \in 1..Len(errors) |-> Yielded(cls, method, errors[i])]

\* Lines 151-153 for one checker class.
run_checker(cls, config, d) ==
    Bind(check_rules(cls, config), LAMBDA rules :
        [raise |-> rules.fault,
         events |->
             chain(Events(cls, "check_exists",
                          check_exists(cls, config.files, d, config.root_dir)),
                   Events(cls, "check_rules", rules.errors))])

\* Lines 150-153: the checkers one after the other, up to one that raises.
RECURSIVE run_checkers(_, _, _)
run_checkers(classes, config, d) ==
    IF classes = <<>> THEN [raise |-> "none", events |-> <<>>]
    ELSE Bind(run_checker(Head(classes), config, d), LAMBDA one :
             IF one.raise # "none" THEN one
             ELSE Bind(run_checkers(Tail(classes), config, d), LAMBDA rest :
                      [raise |-> rest.raise, events |-> one.events \o rest.events]))

Outcome(stage, raise, errors, c, d, style, events) ==
    [stage |-> stage, raise |-> raise, errors |-> errors, cache |-> c, disk |-> d,
     style |-> style, events |-> events]

DoesYield(event) == event.yields

ErrorsOf(events) ==
    Bind(SelectSeq(events, DoesYield), LAMBDA yielded :
        [i \in 1..Len(yielded) |-> yielded[i].error])

\* Lines 144-153: the configuration, then the checkers.
run_main(e, c, d, root_dir) ==
    Bind(NitpickConfig(e, d, c, root_dir), LAMBDA config :
        IF config.raise = "RuntimeError"
            THEN Outcome("config", "none",
                         <<nitpick_error(100, config.message.text, config.message.subject,
                                         NoDict)>>,
                         config.cache, config.disk, config.style, <<>>)
        ELSE IF config.raise # "none"
            THEN Outcome("config", config.raise, <<>>, config.cache, config.disk,
                         config.style, <<>>)
        ELSE Bind(run_checkers(get_subclasses("BaseChecker"), config.config, config.disk),
                  LAMBDA checked :
                      Outcome("checkers", checked.raise, ErrorsOf(checked.events),
                              config.cache, config.disk, config.style, checked.events)))

\* NitpickChecker.run on `filename`, drained by the caller.  `d` is the disk
\* once NitpickCache.__init__ has made the cache file.
run_on(e, c, d, filename, first_py) ==
    Bind(find_root_dir(d, c, e.cwd, filename), LAMBDA root :
        IF root.raise # "none"
            THEN Outcome("find_root_dir", root.raise, <<>>, root.cache, d, NoStyleCall, <<>>)
        ELSE IF root.none
            THEN Outcome("find_root_dir", "none",
                         <<nitpick_error(100, "No root dir found", <<>>, NoDict)>>,
                         root.cache, d, NoStyleCall, <<>>)
        ELSE
    Bind(find_main_python_file(d, root.cache, e.cwd, root.root_dir, filename, first_py),
         LAMBDA main :
        IF main.raise # "none"
            THEN Outcome("find_main_python_file", main.raise, <<>>, main.cache, d,
                         NoStyleCall, <<>>)
        ELSE IF ~ is_main_python_file(filename, main.path)
            THEN Outcome("not main", "none", <<>>, main.cache, d, NoStyleCall, <<>>)
        ELSE run_main(e, main.cache, d, root.root_dir)))

run(e, c, filename, first_py) ==
    run_on(e, c, e.disk \cup {cache_file(e.cwd)}, filename, first_py)

-----------------------------------------------------------------------------
(* The project, its environment and the runs of the plugin on its files.   *)

ParentDir == <<<<"p">>>>
PkgDir == ProjDir \o <<<<"pkg">>>>
APP_PY == <<"app", ".", "py">>
CLI_PY == <<"cli", ".", "py">>
PkgModPy == PkgDir \o <<<<"mod", ".", "py">>>>

\* What the manifest may give as its style.
LOCAL_STYLE == <<"styles", "/", "ok", ".", "toml">>
LOCAL_MISSING == <<"styles", "/", "missing", ".", "toml">>
SHARED_STYLE == <<"/", "shared", "/", "style", ".", "toml">>
Locators == {<<>>, URL_OK, URL_404, URL_DOWN, LOCAL_STYLE, LOCAL_MISSING, SHARED_STYLE}

Black(line_length) ==
    Entry(<<"black">>, Mapping(<<Entry(<<"line-length">>, Leaf(line_length))>>))

\* The text of pyproject.toml.
Manifest(style) ==
    (IF style = <<>> THEN <<>> ELSE <<Entry(<<"style">>, Leaf(style))>>)
        \o <<Entry(<<"tool">>, Mapping(<<Black(<<"120">>)>>))>>

\* The texts a style may have: no TOML, a style the project complies with when
\* setup.cfg is its only other file, and a style that overrides `files` and
\* wants a value the manifest has otherwise and a key it has not.
StyleTexts ==
    {[valid |-> FALSE, toml |-> <<>>],
     [valid |-> TRUE,
      toml |-> <<Entry(PYPROJECT_TOML,
                       Mapping(<<Entry(<<"tool">>, Mapping(<<Black(<<"120">>)>>))>>))>>],
     [valid |-> TRUE,
      toml |-> <<Entry(<<"files">>,
                       Mapping(<<Entry(PYPROJECT_TOML, Bool(FALSE)),
                                 Entry(<<"setup", ".", "cfg">>, Bool(FALSE)),
                                 Entry(<<"Pipfile">>, Bool(TRUE))>>)),
                 Entry(PYPROJECT_TOML,
                       Mapping(<<Entry(<<"tool">>,
                                       Mapping(<<Black(<<"100">>),
                                                 Entry(<<"isort">>,
                                                       Mapping(<<Entry(<<"multi_line_output">>,
                                                                       Leaf(<<"3">>))>>))>>))>>))>>]}

\* The other files of the project's directory.
OtherFiles ==
    {{}, {<<"setup", ".", "cfg">>},
     {<<"setup", ".", "cfg">>, <<"Pipfile">>, <<"Pipfile", ".", "lock">>}}

NoRun ==
    [ran |-> FALSE, filename |-> <<>>, inputs |-> [cache |-> EmptyCache, disk |-> {}]]
        @@ Outcome("", "none", <<>>, EmptyCache, {}, NoStyleCall, <<>>)

style_of(manifest) == DictGet(manifest.toml, <<"style">>, Leaf(<<>>)).val

InitRun ==
    /\ pc = "start"
    /\ \E cwd \in {ParentDir, ProjDir, PkgDir},
          manifest \in {"none", "valid", "no TOML"},
          root_py \in {{}, {SETUP_PY}, {APP_PY}, {APP_PY, CLI_PY}, {SETUP_PY, APP_PY}},
          style_dir \in {<<>>, ParentDir, ProjDir},
          style \in StyleTexts,
          others \in OtherFiles,
          locator \in Locators :
          /\ manifest # "valid" => locator = <<>>
          /\ env = [cwd |-> cwd,
                    disk |-> {PkgModPy, cwd \o PathOf(LOCAL_STYLE).parts,
                              PathOf(SHARED_STYLE).parts}
                             \cup {ProjDir \o <<n>> : n \in root_py \cup others}
                             \cup (IF manifest = "none" THEN {}
                                   ELSE {ProjDir \o <<PYPROJECT_TOML>>})
                             \cup (IF style_dir = <<>> THEN {}
                                   ELSE {style_dir \o <<NITPICK_STYLE_TOML>>}),
                    manifest |-> [valid |-> manifest = "valid", toml |-> Manifest(locator)],
                    style |-> style]
    /\ cache = EmptyCache
    /\ lastRun = NoRun
    /\ IdleTree /\ IdleRules /\ IdleClimb /\ IdleExists /\ IdleText

\* Flake8 hands one Python file of the project to the plugin, which runs on it.
Run(filename) ==
    /\ filename \in env.disk
    /\ \E first_py \in {APP_PY, CLI_PY} :
        \E out \in {run(env, cache, filename, first_py)} :
              /\ cache' = out.cache
              /\ env' = [env EXCEPT !.disk = out.disk]
              /\ lastRun' = [ran |-> TRUE, filename |-> filename,
                             inputs |-> [cache |-> cache, disk |-> env.disk]] @@ out
    /\ UNCHANGED notRun

\* The user edits the style the manifest gives.
EditManifest(locator) ==
    /\ IsFile(env.disk, ProjDir \o <<PYPROJECT_TOML>>)
    /\ env.manifest.valid
    /\ locator # style_of(env.manifest)
    /\ env' = [env EXCEPT !.manifest.toml = Manifest(locator)]
    /\ lastRun' = NoRun
    /\ UNCHANGED <<cache, notRun>>

PythonFiles == {ProjDir \o <<n>> : n \in {SETUP_PY, APP_PY, CLI_PY}} \cup {PkgModPy}

Next ==
    \/ \E filename \in PythonFiles : Run(filename)
    \/ \E locator \in Locators : EditManifest(locator)

Spec == InitRun /\ [][Next]_vars

-----------------------------------------------------------------------------
(* Properties of the runs.                                                 *)

\* The main Python file and the root dir the cache names.
Primary == load_path(cache, "main_python_file", env.cwd)
RootDir == load_path(cache, "root_dir", env.cwd)

\* C4: a call of the style resolver that finds a style path in the cache
\* returns that path without a network request and without a climb of the
\* directory tree, whatever style the manifest gives by then; and a style path
\* once in the cache stays the one in the cache.
C4_CachedStyle ==
    /\ [](lastRun.style.called /\ lastRun.style.cached =>
            /\ lastRun.style.raise = "none"
            /\ lastRun.style.style_path =
                   AbsPath(load_path(lastRun.inputs.cache, "style", env.cwd).parts)
            /\ lastRun.style.requests = 0
            /\ lastRun.style.climbs = 0)
    /\ [][cache["style"].set => cache'["style"] = cache["style"]]_vars

\* The resolver answers from the cache while the manifest gives a URL that no
\* longer responds.
C4_Witness ==
    /\ lastRun.style.called /\ lastRun.style.cached
    /\ style_of(env.manifest) = URL_DOWN
    /\ lastRun.style.raise = "none"

\* C5, as the specification states it: a run that yields diagnostics is a run
\* on the main Python file.
C5_OnlyPrimaryYields ==
    lastRun.ran /\ lastRun.errors # <<>> =>
        /\ ~ Primary.none
        /\ lastRun.filename = Primary.parts

\* C5, amended: a run that yields diagnostics is a run on the main Python
\* file, but for the run that finds no root dir, which yields the one
\* diagnostic "No root dir found" whatever its file; and the main Python file
\* once in the cache stays the one in the cache.
C5_PrimaryGuard ==
    /\ [](lastRun.ran /\ lastRun.errors # <<>> =>
            IF cache["root_dir"].set
                THEN /\ ~ Primary.none
                     /\ lastRun.filename = Primary.parts
                ELSE lastRun.errors =
                         <<nitpick_error(100, "No root dir found", <<>>, NoDict)>>)
    /\ [][cache["main_python_file"].set =>
              cache'["main_python_file"] = cache["main_python_file"]]_vars

\* A run on another file than the main one yields nothing, in a project whose
\* checks do yield diagnostics.
C5_Witness ==
    /\ lastRun.ran /\ lastRun.errors = <<>> /\ lastRun.raise = "none"
    /\ ~ Primary.none /\ ~ RootDir.none
    /\ lastRun.filename # Primary.parts
    /\ run_main(env, cache, env.disk, RootDir.parts).errors # <<>>

\* The run found no root dir: nothing in the cache, nothing up the tree.
RootUndetermined ==
    /\ ~ lastRun.inputs.cache["root_dir"].set
    /\ climb_directory_tree(lastRun.inputs.disk, lastRun.filename, ROOT_FILES).none

\* The run asked for the style and got none it could use: the resolver raised,
\* or the style's text is no TOML.
StyleUnusable ==
    lastRun.style.called /\ (lastRun.style.raise # "none" \/ ~ env.style.valid)

\* C6: a run that finds no root dir, or that cannot locate, fetch or parse the
\* style, raises nothing, yields exactly one diagnostic, of code 100, and runs
\* no checker.
C6_ConfigErrorsAreDiagnostics ==
    lastRun.ran /\ (RootUndetermined \/ StyleUnusable) =>
        /\ lastRun.raise = "none"
        /\ Len(lastRun.errors) = 1
        /\ lastRun.errors[1].code = 100
        /\ lastRun.events = <<>>

\* C9: a call of the style resolver that finds the style otherwise than in
\* the cache (a URL, a path the manifest gives, nitpick-style.toml in root_dir
\* or above it) returns, and has stored the style's path in the cache.
C9_StoredOnSuccess ==
    lastRun.style.called /\ ~ lastRun.style.cached /\ lastRun.style.located =>
        /\ lastRun.style.raise = "none"
        /\ cache["style"].set
        /\ load_path(cache, "style", env.cwd).parts =
               Resolve(lastRun.style.style_path, env.cwd)

\* The classes in the order of their definition, and the steps of a run of
\* the checkers in that order.
Registration ==
    <<"PyProjectTomlChecker", "SetupCfgChecker", "PipfileChecker", "PipfileLockChecker">>
Steps ==
    [i \in 1..(2 * Len(Registration)) |->
        [checker |-> Registration[(i + 1) \div 2],
         method |-> IF i % 2 = 1 THEN "check_exists" ELSE "check_rules"]]
IsEntry(event) == ~ event.yields
StepOf(event) == [checker |-> event.checker, method |-> event.method]

====
